---- MODULE Spec2Model ----
(***************************************************************************)
(* The three scripts of ascii_video: ascii_image.py (one image),           *)
(* ascii_fast.py (video) and ascii_video.py (video with the rotation       *)
(* probe).  Each builds a palette of glyph stamps once and composes every  *)
(* frame by grayscale / nearest resize / quantize / gather / swapaxes /    *)
(* reshape.  Arrays are functions over 0..n-1, as in numpy.                *)
(***************************************************************************)
EXTENDS Integers, Sequences, FiniteSets, TLC

VARIABLES
    script,            \* which script runs: "image", "fast" or "video"
    file,              \* the input file on disk (args.input), never written
    font,              \* the font main() loaded, with the bbox of "@"
    pc,                \* position in main() / process_*_numpy()
    clip,              \* the opened clip (for the image script: the frame)
    char_w, char_h,    \* stamp size measured from the font
    w, h,              \* dimensions the grid is computed from
    cols, rows,        \* grid dimensions
    char_palette,      \* (11, char_h, char_w, 3) array, <<>> before it is built
    build_count,       \* number of pre_render_chars calls so far
    frame_no,          \* frames taken from clip.iter_frames() so far
    converted,         \* number of cv2.cvtColor calls so far
    indices,           \* the index grid of the last composed frame
    processed_frames,  \* composed frames accumulated so far
    output,            \* what was written to output_path
    stdout,            \* messages printed that matter here
    interrupted,       \* a KeyboardInterrupt was delivered
    exit_status        \* process exit status, -1 while running

vars == <<script, file, font, pc, clip, char_w, char_h, w, h, cols, rows,
          char_palette, build_count, frame_no, converted, indices,
          processed_frames, output, stdout, interrupted, exit_status>>

---------------------------------------------------------------------------
(* Bounds of the model.                                                    *)
MaxDim == 4        \* frame width and height range over 1..MaxDim
MaxChar == 2       \* stamp width and height range over 1..MaxChar
MaxFrames == 2     \* a video has 0..MaxFrames frames
MaxGradChar == 5   \* stamp widths of the gradient scenario

(* Program constants.                                                      *)
ASCII_CHARS == <<" ", ".", ",", "-", "~", "+", "=", "@", "#", "%", "$">>
FullScale == 255   \* the divisor of the quantization
Channels == 3      \* RGB

---------------------------------------------------------------------------
(* numpy helpers                                                           *)
Dim(a) == Cardinality(DOMAIN a)

Min(a, b) == IF a < b THEN a ELSE b

Shape3(a) == <<Dim(a), Dim(a[0]), Dim(a[0][0])>>

---------------------------------------------------------------------------
(* The font: what PIL draws for glyph k of ASCII_CHARS at stamp pixel      *)
(* (i, j) in white on black.  A space draws nothing; every other glyph of  *)
(* a font has its own ink value at every pixel, so that a stamp, a row or  *)
(* a column put at the wrong place is visible.                             *)
FontNames == {"Menlo", "default"}

FontInk(name, k, i, j) ==
    IF ASCII_CHARS[k + 1] = " " THEN 0
    ELSE IF name = "Menlo" THEN k * 20 + i * 4 + j + 1
    ELSE 255 - (k * 20 + i * 4 + j + 1)

(* pre_render_chars: one (char_height, char_width, 3) stamp per character  *)
(* of ASCII_CHARS, stacked.                                                *)
pre_render_chars(name, char_width, char_height) ==
    [k \in 0..(Len(ASCII_CHARS) - 1) |->
        [i \in 0..(char_height - 1) |->
            [j \in 0..(char_width - 1) |->
                [ch \in 0..(Channels - 1) |-> FontInk(name, k, i, j)]]]]

(* dummy_draw.textbbox((0, 0), "@"): char_w = bbox[2] - bbox[0] and        *)
(* char_h = bbox[3] - bbox[1]; bbox is <<left, top, right, bottom>>.       *)
MeasureW(bbox) == bbox[3] - bbox[1]

MeasureH(bbox) == bbox[4] - bbox[2]

---------------------------------------------------------------------------
(* get_video_rotation: the ffprobe result is                               *)
(*   "missing"    ffprobe is not installed (subprocess.run raises OSError, *)
(*                which the function does not catch)                       *)
(*   "error"      CalledProcessError / JSONDecodeError / ValueError        *)
(*   "nostreams"  no video stream in the answer                            *)
(*   "stream"     a stream, with or without tags.rotate, and its           *)
(*                side_data_list of rotation values                        *)
RECURSIVE FirstTruthy(_)
FirstTruthy(side) ==
    IF side = <<>> THEN 0
    ELSE IF Head(side) # 0 THEN Head(side)
    ELSE FirstTruthy(Tail(side))

ProbeRaises(probe) == probe.kind = "missing"

get_video_rotation(probe) ==
    IF probe.kind # "stream" THEN 0
    ELSE LET rotation == IF probe.has_rotate THEN probe.rotate
                         ELSE FirstTruthy(probe.side)
             normal == rotation % 360
         IN  IF normal \notin {0, 90, 180, 270} THEN 0 ELSE normal

(* w, h = clip.size, exchanged by ascii_video.py when the rotation is 90   *)
(* or 270; ascii_fast.py and ascii_image.py take the size as it is.        *)
GridSource(scr, size, probe) ==
    IF scr = "video" /\ get_video_rotation(probe) \in {90, 270}
    THEN <<size[2], size[1]>>
    ELSE size

(* A grid that rounds up instead of down.                                  *)
GridCountCeil(extent, char_extent) == (extent + char_extent - 1) \div char_extent

(* cols = w // char_w, rows = h // char_h                                  *)
GridCount(extent, char_extent) == extent \div char_extent

---------------------------------------------------------------------------
(* cv2.cvtColor(frame, cv2.COLOR_RGB2GRAY) on uint8: the fixed-point luma  *)
(* (R*4899 + G*9617 + B*1868 + 2^13) >> 14.                                *)
Luma(px) == (px[0] * 4899 + px[1] * 9617 + px[2] * 1868 + 8192) \div 16384

cvtColor(frame) ==
    [y \in DOMAIN frame |-> [x \in DOMAIN frame[y] |-> Luma(frame[y][x])]]

(* Sampling at the centre of the destination pixel instead of its edge.    *)
NearestCentre(k, src, dst) == Min(((2 * k + 1) * src) \div (2 * dst), src - 1)

(* cv2.resize(img, (cols, rows), INTER_NEAREST): destination (y, x) takes  *)
(* source (min(floor(y*H/rows), H-1), min(floor(x*W/cols), W-1)).  OpenCV  *)
(* computes the products in double precision; for every pair of sizes      *)
(* within the bounds of this model that agrees with the exact quotient.    *)
(* A destination size with a zero raises cv2.error (see ProcessFrame).     *)
NearestSrc(k, src, dst) == Min((k * src) \div dst, src - 1)

resize(img, dcols, drows) ==
    [y \in 0..(drows - 1) |->
        [x \in 0..(dcols - 1) |->
            img[NearestSrc(y, Dim(img), drows)][NearestSrc(x, Dim(img[0]), dcols)]]]

(* The ramp read from the other end.                                       *)
QuantizeInverted(v) ==
    (Len(ASCII_CHARS) - 1) - (v * (Len(ASCII_CHARS) - 1)) \div FullScale

(* (img_small / 255 * (len(ASCII_CHARS) - 1)).astype(int): the float64     *)
(* quotient and product, truncated.  For all 256 values of a uint8 this    *)
(* equals floor(v * 10 / 255).                                             *)
QuantizeIndex(v) == (v * (Len(ASCII_CHARS) - 1)) \div FullScale

Quantize(img_small) ==
    [r \in DOMAIN img_small |->
        [c \in DOMAIN img_small[r] |-> QuantizeIndex(img_small[r][c])]]

(* char_palette[indices]: shape (rows, cols, char_h, char_w, 3), a copy.   *)
Gather(palette, idx) ==
    [r \in DOMAIN idx |-> [c \in DOMAIN idx[r] |-> palette[idx[r][c]]]]

(* The gathered array left as it is, axes not exchanged.                   *)
swapaxesNone(t) == t

(* tiled_chars.swapaxes(1, 2): shape (rows, char_h, cols, char_w, 3).      *)
swapaxes12(t) ==
    [r \in DOMAIN t |->
        [i \in DOMAIN t[r][0] |->
            [c \in DOMAIN t[r] |-> t[r][c][i]]]]

(* Element k of a 5-dimensional array in C order.                          *)
FlatAt(a, k) ==
    LET d1 == Dim(a[0])
        d2 == Dim(a[0][0])
        d3 == Dim(a[0][0][0])
        d4 == Dim(a[0][0][0][0])
    IN  a[k \div (d1 * d2 * d3 * d4)]
         [(k \div (d2 * d3 * d4)) % d1]
         [(k \div (d3 * d4)) % d2]
         [(k \div d4) % d3]
         [k % d4]

(* A reshape with the two leading extents exchanged.                       *)
reshapeExchanged(a, n0, n1, n2) ==
    [y \in 0..(n1 - 1) |->
        [x \in 0..(n0 - 1) |->
            [ch \in 0..(n2 - 1) |-> FlatAt(a, (y * n0 + x) * n2 + ch)]]]

(* a.reshape(n0, n1, n2): the same elements in C order.                    *)
reshape(a, n0, n1, n2) ==
    [y \in 0..(n0 - 1) |->
        [x \in 0..(n1 - 1) |->
            [ch \in 0..(n2 - 1) |-> FlatAt(a, (y * n1 + x) * n2 + ch)]]]

(* One pass of the compositor over a frame, for a non-empty grid.          *)
IndexGrid(frame, gcols, grows) == Quantize(resize(cvtColor(frame), gcols, grows))

Compose(palette, idx, grows, gcols, cw, chh) ==
    reshape(swapaxes12(Gather(palette, idx)), grows * chh, gcols * cw, Channels)

---------------------------------------------------------------------------
(* Inputs.  args.scale is the default 1.0 throughout, so the resize        *)
(* branches (`if scale != 1.0`) are not taken.                             *)
Pixel(r, g, b) == [ch \in 0..(Channels - 1) |-> <<r, g, b>>[ch + 1]]

Patterns == {"black", "mix"}

PatternFrame(p, fw, fh) ==
    [y \in 0..(fh - 1) |->
        [x \in 0..(fw - 1) |->
            IF p = "black" THEN Pixel(0, 0, 0)
            ELSE Pixel(((x + 1) * 255) \div fw, ((y + 1) * 255) \div fh, 0)]]

(* Frame sequences of lo..hi frames that alternate between the patterns.   *)
PatternSeqs(lo, hi) ==
    {[n \in 1..k |-> IF n % 2 = 1 THEN p[1] ELSE p[2]] :
        k \in lo..hi, p \in {<<"black", "mix">>, <<"mix", "black">>}}

StreamProbe(has, rot, side) ==
    [kind |-> "stream", has_rotate |-> has, rotate |-> rot, side |-> side]

PlainProbe == StreamProbe(FALSE, 0, <<>>)

OtherProbe(kind) ==
    [kind |-> kind, has_rotate |-> FALSE, rotate |-> 0, side |-> <<>>]

Probes ==
    {OtherProbe("missing"), OtherProbe("error"), OtherProbe("nostreams")}
    \cup {StreamProbe(TRUE, r, <<>>) : r \in {45, 90}}
    \cup {StreamProbe(TRUE, 180, <<-90>>)}
    \cup {StreamProbe(FALSE, 0, sd) : sd \in {<<>>, <<0, -90>>}}

Fps == 24

BadFile ==
    [openable |-> FALSE, size |-> <<1, 1>>, frames |-> <<>>, fps |-> Fps,
     audio |-> FALSE, probe |-> PlainProbe]

GoodFiles(scr) ==
    {[openable |-> TRUE, size |-> sz,
      frames |-> [k \in DOMAIN ps |-> PatternFrame(ps[k], sz[1], sz[2])],
      fps |-> Fps, audio |-> au, probe |-> pr] :
        sz \in (1..MaxDim) \X (1..MaxDim),
        ps \in IF scr = "image" THEN PatternSeqs(1, 1)
               ELSE PatternSeqs(0, MaxFrames),
        au \in IF scr = "image" THEN {FALSE}
               ELSE IF scr = "fast" THEN {TRUE}
               ELSE BOOLEAN,
        pr \in IF scr = "video" THEN Probes
               ELSE IF scr = "fast" THEN {PlainProbe, StreamProbe(TRUE, 90, <<>>)}
               ELSE {PlainProbe}}

(* ImageFont.truetype(font_path, args.fontsize) gives a bbox that depends  *)
(* on the font size; ImageFont.load_default(), the fallback, has one size. *)
Fonts ==
    {[name |-> "Menlo", bbox |-> <<0, 1, c[1], 1 + c[2]>>] :
        c \in (1..MaxChar) \X (1..MaxChar)}
    \cup {[name |-> "default", bbox |-> <<0, 0, 1, 2>>]}

NoClip == <<>>

NoOutput == [written |-> FALSE, frames |-> <<>>, fps |-> 0, audio |-> <<>>]

Running == -1

InitRun ==
    /\ pc = "start"
    /\ clip = NoClip
    /\ char_w = 0 /\ char_h = 0
    /\ w = 0 /\ h = 0
    /\ cols = 0 /\ rows = 0
    /\ char_palette = <<>>
    /\ build_count = 0
    /\ frame_no = 0
    /\ converted = 0
    /\ indices = <<>>
    /\ processed_frames = <<>>
    /\ output = NoOutput
    /\ stdout = <<>>
    /\ interrupted = FALSE
    /\ exit_status = Running

Init ==
    /\ script \in {"image", "fast", "video"}
    /\ font \in Fonts
    /\ file \in GoodFiles(script) \cup {BadFile}
    /\ InitRun

---------------------------------------------------------------------------
(* main(): VideoFileClip(args.input), or Image.open(image_path) and        *)
(* np.array(img) in process_image_numpy; both inside main's try.           *)
OpenInput ==
    /\ pc = "start"
    /\ IF file.openable
       THEN /\ clip' = [size |-> file.size, frames |-> file.frames,
                        fps |-> file.fps,
                        duration |-> <<Len(file.frames), file.fps>>,
                        audio |-> file.audio]
            /\ pc' = "measure"
       ELSE /\ clip' = clip
            /\ pc' = "except"
    /\ UNCHANGED <<script, file, font, char_w, char_h, w, h, cols, rows,
                   char_palette, build_count, frame_no, converted, indices,
                   processed_frames, output, stdout, interrupted, exit_status>>

(* 1. Measure Font Metrics                                                 *)
MeasureFont ==
    /\ pc = "measure"
    /\ char_w' = MeasureW(font.bbox)
    /\ char_h' = MeasureH(font.bbox)
    /\ pc' = "grid"
    /\ UNCHANGED <<script, file, font, clip, w, h, cols, rows,
                   char_palette, build_count, frame_no, converted, indices,
                   processed_frames, output, stdout, interrupted, exit_status>>

(* w, h = clip.size (h, w = frame.shape[:2] for the image), the rotation   *)
(* probe of ascii_video.py, and the grid dimensions.                       *)
CalcGrid ==
    /\ pc = "grid"
    /\ IF script = "video" /\ ProbeRaises(file.probe)
       THEN /\ pc' = "except"
            /\ UNCHANGED <<w, h, cols, rows>>
       ELSE LET wh == GridSource(script, clip.size, file.probe)
            IN  /\ w' = wh[1]
                /\ h' = wh[2]
                /\ cols' = GridCount(wh[1], char_w)
                /\ rows' = GridCount(wh[2], char_h)
                /\ pc' = "palette"
    /\ UNCHANGED <<script, file, font, clip, char_w, char_h,
                   char_palette, build_count, frame_no, converted, indices,
                   processed_frames, output, stdout, interrupted, exit_status>>

(* Pre-render fonts to a lookup table (The Palette)                        *)
PreRender ==
    /\ pc = "palette"
    /\ char_palette' = pre_render_chars(font.name, char_w, char_h)
    /\ build_count' = build_count + 1
    /\ pc' = "loop"
    /\ UNCHANGED <<script, file, font, clip, char_w, char_h, w, h, cols, rows,
                   frame_no, converted, indices,
                   processed_frames, output, stdout, interrupted, exit_status>>

(* One iteration of `for frame in clip.iter_frames()` (the only frame of   *)
(* the image script).  cv2.resize raises cv2.error when cols or rows is 0, *)
(* after cvtColor has run.                                                 *)
LoopBody ==
    /\ pc = "loop"
    /\ frame_no < Len(clip.frames)
    /\ converted' = converted + 1
    /\ IF cols = 0 \/ rows = 0
       THEN /\ pc' = "except"
            /\ UNCHANGED <<frame_no, indices, processed_frames>>
       ELSE LET idx == IndexGrid(clip.frames[frame_no + 1], cols, rows)
            IN  /\ indices' = idx
                /\ processed_frames' =
                       Append(processed_frames,
                              Compose(char_palette, idx, rows, cols, char_w, char_h))
                /\ frame_no' = frame_no + 1
                /\ pc' = "loop"
    /\ UNCHANGED <<script, file, font, clip, char_w, char_h, w, h, cols, rows,
                   output, stdout, interrupted, exit_status>>

(* A loop body that writes through to the palette: the stamp of the last   *)
(* character is blanked while a frame is composed.                         *)
ProcessFrameDirty ==
    /\ LoopBody
    /\ char_palette' =
           [char_palette EXCEPT ![Len(ASCII_CHARS) - 1] =
               [i \in DOMAIN @ |-> [j \in DOMAIN @[i] |-> Pixel(0, 0, 0)]]]
    /\ UNCHANGED build_count

(* The loop body only reads char_palette: indexing with an array copies.   *)
ProcessFrame ==
    /\ LoopBody
    /\ UNCHANGED <<char_palette, build_count>>

(* ImageSequenceClip(processed_frames, fps), set_audio(clip.audio) and     *)
(* write_videofile; ImageSequenceClip raises on an empty list.  Then       *)
(* main returns.                                                           *)
Encode ==
    /\ pc = "loop"
    /\ script # "image"
    /\ frame_no = Len(clip.frames)
    /\ IF processed_frames = <<>>
       THEN /\ pc' = "except"
            /\ UNCHANGED <<output, exit_status>>
       ELSE /\ output' = [written |-> TRUE, frames |-> processed_frames,
                          fps |-> clip.fps,
                          audio |-> IF clip.audio THEN clip.duration ELSE <<>>]
            /\ pc' = "done"
            /\ exit_status' = 0
    /\ UNCHANGED <<script, file, font, clip, char_w, char_h, w, h, cols, rows,
                   char_palette, build_count, frame_no, converted, indices,
                   processed_frames, stdout, interrupted>>

(* Image.fromarray(final_image).save(output_path); then main returns.      *)
SaveImage ==
    /\ pc = "loop"
    /\ script = "image"
    /\ frame_no = Len(clip.frames)
    /\ output' = [written |-> TRUE, frames |-> processed_frames,
                   fps |-> 0, audio |-> <<>>]
    /\ stdout' = Append(stdout, "Saved")
    /\ pc' = "done"
    /\ exit_status' = 0
    /\ UNCHANGED <<script, file, font, clip, char_w, char_h, w, h, cols, rows,
                   char_palette, build_count, frame_no, converted, indices,
                   processed_frames, interrupted>>

(* main(): `except Exception as e: print(f"Error: {e}")`, after which main *)
(* returns normally and the interpreter exits with status 0.               *)
ExceptHandler ==
    /\ pc = "except"
    /\ stdout' = Append(stdout, "Error")
    /\ exit_status' = 0
    /\ pc' = "done"
    /\ UNCHANGED <<script, file, font, clip, char_w, char_h, w, h, cols, rows,
                   char_palette, build_count, frame_no, converted, indices,
                   processed_frames, output, interrupted>>

(* Ctrl-C while the frame loop runs: KeyboardInterrupt is a BaseException, *)
(* not an Exception; nothing in process_video_numpy or main catches it,    *)
(* so the interpreter prints the traceback and dies (status 130).          *)
KeyboardInterrupt ==
    /\ pc = "loop"
    /\ script # "image"
    /\ interrupted' = TRUE
    /\ stdout' = Append(stdout, "Traceback")
    /\ exit_status' = 130
    /\ pc' = "killed"
    /\ UNCHANGED <<script, file, font, clip, char_w, char_h, w, h, cols, rows,
                   char_palette, build_count, frame_no, converted, indices,
                   processed_frames, output>>

Next ==
    \/ OpenInput
    \/ MeasureFont
    \/ CalcGrid
    \/ PreRender
    \/ ProcessFrame
    \/ Encode
    \/ SaveImage
    \/ ExceptHandler
    \/ KeyboardInterrupt

Spec == Init /\ [][Next]_vars

---------------------------------------------------------------------------
(* Runs of ascii_image.py on chosen images.  With an image that opens and  *)
(* a non-empty grid, these are the only steps Next can take.               *)
NextImage ==
    \/ OpenInput
    \/ MeasureFont
    \/ CalcGrid
    \/ PreRender
    \/ ProcessFrame
    \/ SaveImage

ImageFile(frame) ==
    [openable |-> TRUE, size |-> <<Dim(frame[0]), Dim(frame)>>,
     frames |-> <<frame>>, fps |-> Fps, audio |-> FALSE, probe |-> PlainProbe]

MenloFont(cw, chh) == [name |-> "Menlo", bbox |-> <<0, 1, cw, 1 + chh>>]

Gray(v) == Pixel(v, v, v)

(* A one-row image of two gray pixels, v1 < v2, one grid cell each.        *)
PairFrame(v1, v2) == [y \in {0} |-> [x \in 0..1 |-> Gray(IF x = 0 THEN v1 ELSE v2)]]

InitPair ==
    /\ script = "image"
    /\ font = MenloFont(1, 1)
    /\ \E v1, v2 \in 0..FullScale :
          /\ v1 < v2
          /\ file = ImageFile(PairFrame(v1, v2))
    /\ InitRun

SpecPair == InitPair /\ [][NextImage]_vars

(* A one-row image that is a horizontal gradient from 0 to 255: pixel x of *)
(* fw has brightness 255*x/(fw-1), truncated or rounded to nearest.        *)
GradientValue(x, fw, mode) ==
    IF mode = "truncated" THEN (FullScale * x) \div (fw - 1)
    ELSE (2 * FullScale * x + (fw - 1)) \div (2 * (fw - 1))

GradientFrame(fw, mode) ==
    [y \in {0} |-> [x \in 0..(fw - 1) |-> Gray(GradientValue(x, fw, mode))]]

GradientModes == {"truncated", "rounded"}

RampLen == Len(ASCII_CHARS)

InitGradient ==
    /\ script = "image"
    /\ \E cw \in 1..MaxGradChar :
          /\ font = MenloFont(cw, 1)
          /\ \E fw \in (RampLen * cw)..((RampLen + 1) * cw - 1), m \in GradientModes :
                file = ImageFile(GradientFrame(fw, m))
    /\ InitRun

SpecGradient == InitGradient /\ [][NextImage]_vars

(* Images of one gray level, 22 or 40 pixels each way, with stamps of 2 or *)
(* 4 pixels each way.                                                      *)
UniformFrame(fw, fh, v) == [y \in 0..(fh - 1) |-> [x \in 0..(fw - 1) |-> Gray(v)]]

InitUniform ==
    /\ script = "image"
    /\ \E cw \in {2, 4}, chh \in {2, 4} : font = MenloFont(cw, chh)
    /\ \E fw \in {22, 40}, fh \in {22, 40}, v \in {0, 128, 255} :
          file = ImageFile(UniformFrame(fw, fh, v))
    /\ InitRun

SpecUniform == InitUniform /\ [][NextImage]_vars

---------------------------------------------------------------------------
(* Properties of the scripts.                                              *)

GridKnown == w > 0

Rotated == get_video_rotation(file.probe) \in {90, 270}

FrameH(k) == Dim(clip.frames[k])

FrameW(k) == Dim(clip.frames[k][0])

FloorTo(extent, unit) == (extent \div unit) * unit

(* C1 as stated: every composed frame has shape (H//sh*sh, W//sw*sw, 3),   *)
(* H and W being the height and width of the frame it was composed from.   *)
C1_ShapeOfFrame ==
    \A k \in DOMAIN processed_frames :
        Shape3(processed_frames[k]) =
            <<FloorTo(FrameH(k), char_h), FloorTo(FrameW(k), char_w), Channels>>

(* C1 amended: every composed frame has shape (h//sh*sh, w//sw*sw, 3),     *)
(* where (w, h) are the frame's width and height, exchanged in             *)
(* ascii_video.py when the probed rotation is 90 or 270; without the       *)
(* exchange it is never larger than the frame.                             *)
C1_ShapeOfGridSource ==
    \A k \in DOMAIN processed_frames :
        LET swap == script = "video" /\ Rotated
            gh == IF swap THEN FrameW(k) ELSE FrameH(k)
            gw == IF swap THEN FrameH(k) ELSE FrameW(k)
            shape == Shape3(processed_frames[k])
        IN  /\ shape = <<FloorTo(gh, char_h), FloorTo(gw, char_w), Channels>>
            /\ ~swap => shape[1] <= FrameH(k) /\ shape[2] <= FrameW(k)

(* A rotated video whose composed frame is taller than the frame it came   *)
(* from, with remainder pixels dropped along the other axis.               *)
C1_Witness ==
    /\ script = "video" /\ Rotated
    /\ processed_frames # <<>>
    /\ Dim(processed_frames[1]) > FrameH(1)
    /\ Dim(processed_frames[1][0]) < FrameH(1)

(* C2: the last composed frame holds, at (r*char_h + i, c*char_w + j),     *)
(* pixel (i, j) of the stamp char_palette[indices[r][c]], for every cell   *)
(* (r, c) of the rows x cols index grid.                                   *)
C2_Tiling ==
    processed_frames # <<>> =>
        LET out == processed_frames[Len(processed_frames)]
        IN  /\ DOMAIN indices = 0..(rows - 1)
            /\ \A r \in 0..(rows - 1) : DOMAIN indices[r] = 0..(cols - 1)
            /\ \A r \in 0..(rows - 1), c \in 0..(cols - 1),
                  i \in 0..(char_h - 1), j \in 0..(char_w - 1) :
                   out[r * char_h + i][c * char_w + j] =
                       char_palette[indices[r][c]][i][j]

C2_Witness ==
    /\ processed_frames # <<>>
    /\ rows >= 2 /\ cols >= 2 /\ char_h >= 2 /\ char_w >= 2
    /\ indices[0][0] # indices[1][1]
    /\ indices[0][1] # indices[1][0]

(* C3: a grid with zero rows or zero columns is a failure before the       *)
(* palette is built and before any frame is converted.                     *)
C3_ZeroGridFailsFirst ==
    (GridKnown /\ (cols = 0 \/ rows = 0)) =>
        /\ build_count = 0
        /\ converted = 0
        /\ pc \in {"except", "done"}

(* C4: a frame loop interrupted after K frames, 0 < K < total, ends with   *)
(* an output of exactly those K frames and audio of K / fps seconds.       *)
C4_InterruptKeepsFrames ==
    (interrupted /\ 0 < frame_no /\ frame_no < Len(clip.frames)) =>
        /\ output.written
        /\ Len(output.frames) = frame_no
        /\ clip.audio => output.audio = <<frame_no, clip.fps>>

(* C5: a run that ended on a failure printed a message and exited with a   *)
(* non-zero status.                                                        *)
Printed(msg) == \E n \in DOMAIN stdout : stdout[n] = msg

C5_FailureExitsNonZero ==
    (exit_status # Running /\ ~output.written) =>
        /\ Printed("Error") \/ Printed("Traceback")
        /\ exit_status # 0

(* C6: in both video scripts the grid of a file with declared rotation 90  *)
(* or 270 is computed from the exchanged width and height, and that of a   *)
(* file with rotation 0 or 180 from the width and height as they are.      *)
C6_RotationSwap ==
    (script \in {"fast", "video"} /\ GridKnown) =>
        IF Rotated
        THEN /\ cols = clip.size[2] \div char_w
             /\ rows = clip.size[1] \div char_h
        ELSE /\ cols = clip.size[1] \div char_w
             /\ rows = clip.size[2] \div char_h

(* C7: the palette is built exactly once, before the first frame is        *)
(* composed, and no step changes a stamp of it afterwards.                 *)
C7_PaletteOnce ==
    [][/\ build_count' <= 1
       /\ processed_frames' # <<>> => build_count' = 1
       /\ build_count = 1 =>
            /\ char_palette' = char_palette
            /\ char_palette' = pre_render_chars(font.name, char_w, char_h)]_vars

C7_Witness ==
    /\ Len(processed_frames) >= 2
    /\ build_count = 1
    /\ char_palette = pre_render_chars(font.name, char_w, char_h)
    /\ char_palette[Len(ASCII_CHARS) - 1] # char_palette[0]

(* The brightness grid the last frame was quantized from.                  *)
LastSmall == resize(cvtColor(clip.frames[frame_no]), cols, rows)

(* C8: quantization is monotone non-decreasing: two grid cells with        *)
(* brightness v1 < v2 get indices index(v1) <= index(v2), and every index  *)
(* lies in 0..N-1.                                                         *)
C8_Monotone ==
    processed_frames # <<>> =>
        /\ \A r \in 0..(rows - 1), c \in 0..(cols - 1) :
               indices[r][c] \in 0..(Len(ASCII_CHARS) - 1)
        /\ \A r1, r2 \in 0..(rows - 1), c1, c2 \in 0..(cols - 1) :
               LastSmall[r1][c1] < LastSmall[r2][c2] =>
                   indices[r1][c1] <= indices[r2][c2]

C8_Witness ==
    /\ processed_frames # <<>>
    /\ cols = 2
    /\ LastSmall[0][0] + 1 = LastSmall[0][1]
    /\ LastSmall[0][1] = FullScale
    /\ indices[0][0] < indices[0][1]

IsGradientRun ==
    /\ processed_frames # <<>>
    /\ rows = 1 /\ cols = RampLen
    /\ \E m \in GradientModes : clip.frames[1] = GradientFrame(clip.size[1], m)

Identity11 == [r \in {0} |-> [c \in 0..(RampLen - 1) |-> c]]

(* C9 as stated: a horizontal gradient from 0 to 255 downsampled to 1 row  *)
(* by 11 columns quantizes to exactly 0,1,...,10.                          *)
C9_GradientCoversPalette ==
    IsGradientRun => indices = Identity11

(* C9 amended: the indices of such a gradient are monotone non-decreasing  *)
(* in column order, start at 0 and lie in 0..10; they are 0,1,...,10       *)
(* exactly when the frame is 11 pixels wide and its values are rounded to  *)
(* nearest; in a wider frame the last column stays below index 10.         *)
C9_GradientMonotone ==
    IsGradientRun =>
        /\ indices[0][0] = 0
        /\ \A c \in 0..(RampLen - 1) : indices[0][c] \in 0..(RampLen - 1)
        /\ \A c \in 0..(RampLen - 2) : indices[0][c] <= indices[0][c + 1]
        /\ indices = Identity11 <=>
               clip.frames[1] = GradientFrame(RampLen, "rounded")
        /\ clip.size[1] > RampLen => indices[0][RampLen - 1] < RampLen - 1

C9_Witness ==
    /\ IsGradientRun
    /\ clip.size[1] > 2 * RampLen
    /\ indices[0][1] = 0
    /\ indices[0][RampLen - 1] = RampLen - 2

IsBlack(frame) ==
    \A y \in DOMAIN frame : \A x \in DOMAIN frame[y] : frame[y][x] = Pixel(0, 0, 0)

AllIndexZero ==
    \A r \in 0..(rows - 1), c \in 0..(cols - 1) : indices[r][c] = 0

TiledStampZero ==
    LET out == processed_frames[1]
    IN  \A y \in DOMAIN out : \A x \in DOMAIN out[y] :
            out[y][x] = char_palette[0][y % char_h][x % char_w]

(* C10 as stated: a 40x22 all-black frame with stamp size 4x2 gives a grid *)
(* of 20x11, all indices 0, the index-0 stamp tiled, output (80,44,3).     *)
C10_BlackFrameAsStated ==
    (/\ processed_frames # <<>>
     /\ IsBlack(clip.frames[1])
     /\ {FrameH(1), FrameW(1)} = {40, 22} /\ FrameH(1) # FrameW(1)
     /\ {char_h, char_w} = {4, 2} /\ char_h # char_w) =>
        /\ <<rows, cols>> \in {<<20, 11>>, <<11, 20>>}
        /\ AllIndexZero
        /\ TiledStampZero
        /\ Shape3(processed_frames[1]) = <<80, 44, Channels>>

(* C10 amended: a 40x22 all-black frame with a 4x2 stamp, the 4-pixel side *)
(* of the stamp along the 40-pixel side of the frame, gives a grid of      *)
(* 10x11, all indices 0, the index-0 stamp tiled 10x11 times and an output *)
(* of the frame's own shape, (40,22,3).                                    *)
C10_BlackFrame ==
    (/\ processed_frames # <<>>
     /\ IsBlack(clip.frames[1])
     /\ \/ FrameH(1) = 40 /\ FrameW(1) = 22 /\ char_h = 4 /\ char_w = 2
        \/ FrameW(1) = 40 /\ FrameH(1) = 22 /\ char_w = 4 /\ char_h = 2) =>
        /\ IF char_h = 4 THEN rows = 10 /\ cols = 11 ELSE cols = 10 /\ rows = 11
        /\ AllIndexZero
        /\ TiledStampZero
        /\ Shape3(processed_frames[1]) = <<FrameH(1), FrameW(1), Channels>>

C10_Witness ==
    /\ processed_frames # <<>>
    /\ IsBlack(clip.frames[1])
    /\ FrameH(1) = 40 /\ FrameW(1) = 22 /\ char_h = 4 /\ char_w = 2
    /\ rows = 10 /\ cols = 11
    /\ output.written

====
